---- MODULE Spec2Model ----
(***************************************************************************)
(* The dbot economy backend: purchase fulfillment and balances.            *)
(*                                                                         *)
(* The store holds one catalogue row, the users, the ledger, the purchase, *)
(* gift and payment rows.  Two bot instances run the fulfillment sweep     *)
(* (process_pending_purchases) and serve buy, gift and chat earning; the   *)
(* Flask threads serve the administrative endpoints; the external platform *)
(* (role grants) and the game server (remote commands) answer every call   *)
(* with success or failure.  A commit writes the attributes assigned since *)
(* the previous commit of that session, whatever the row holds by then.    *)
(*                                                                         *)
(* Spec       the fulfillment pipeline with the administrative endpoints   *)
(* LiveSpec   Spec with the sweeps scheduled fairly                        *)
(* FaultSpec  Spec with exceptions from the store                          *)
(* EconSpec   the balance-changing requests, each a read and a commit      *)
(* LegacySpec the sweep of the prefix-command bot (discord_bot.py)         *)
(* CrashSpec  the sweeps, fairly scheduled, with bot processes that stop   *)
(* RemoteSpec the calls to the game server and the role grant              *)
(* LimitSpec  the request rate limiter                                     *)
(***************************************************************************)
EXTENDS Integers, Sequences, FiniteSets, TLC

\* ---------------------------------------------------------------- bounds
MaxPurchases == 2
MaxManualCalls == 1
StartCoins == 2
MaxLedger == 3
CoinsPerMessage == 1
MaxDailyCoins == 2
PayCoins == 1
MaxServers == 2
MaxGuilds == 2
MaxTime == 2
MaxAccepted == 3

\* -------------------------------------------------------------- constants
\* the two processes that run the bot: `app.run(debug=True)` re-executes the
\* script in a reloader child while the parent keeps its daemon bot thread
Workers == {"w1", "w2"}

PIds == 1..MaxPurchases

\* user ids: the buyer (id 1, the row `user`) and a second account
Users == {1, 2}

\* the database sessions that change balances: one per bot process and one
\* Flask request thread
Sessions == Workers \cup {"web"}

\* None of a nullable text column / DateTime column
NoText == <<>>
NoRole == ""
NoTime == "NULL"
SomeTime == "utcnow"

ItemTypes == {"discord", "minecraft", "both"}
RoleIds == {NoRole, "role1"}
Templates == {NoText, <<"give", "{username}">>, <<"link", "{minecraft_uuid}", "{discord_id}">>}
Uuids == {"", "uuid1"}
Quantities == {1}

\* the rows the items table admits (one catalogue row, id 1, price 1)
ItemRows ==
  [present : {TRUE}, price : {1}, item_type : ItemTypes, discord_role_id : RoleIds,
   minecraft_command_template : Templates, is_available : {TRUE}]

\* the rows the users table admits (one user, id 1)
UserRows == [username : {"steve"}, discord_id : {"42"}, minecraft_uuid : Uuids]

VARIABLES
  item,          \* the items row with id 1 (present = FALSE once hard-deleted)
  user,          \* the users row with id 1
  coins,         \* User.coins per user id
  transactions,  \* the ledger: sequence of Transaction rows
  purchases,     \* sequence of Purchase rows; the id is the index
  wpc,           \* per bot instance: position in process_pending_purchases
  wqueue,        \* per bot instance: the rest of pending_purchases (ids), head = current
  wloc,          \* per bot instance: the session's view of the current purchase
  req,           \* the manual-fulfill request being served
  del,           \* the delete-item request being served
  roleCalls,     \* per purchase: assign_discord_role calls started
  cmdCalls,      \* per purchase: execute_command calls started by a worker
  roleOk,        \* per purchase: some role grant returned success
  cmdOk,         \* per purchase: some execute_command returned success
  manualCalls,   \* execute_command calls started by the manual-fulfill endpoint
  gifts,         \* sequence of Gift rows
  payment,       \* status of the payment record ("none": no record)
  sess,          \* per session: the balance-changing request it serves
  resp,          \* the last refusal a balance-changing request was answered with
  legacy,        \* the sweep of the prefix-command bot (discord_bot.py)
  rcon,          \* the execute_command call being served
  poll,          \* the status-polling loop (update_all_server_status)
  grant,         \* the assign_discord_role call being served
  limiter        \* the clock and SecurityManager.rate_limit_storage

vars == <<item, user, coins, transactions, purchases, wpc, wqueue, wloc, req, del,
          roleCalls, cmdCalls, roleOk, cmdOk, manualCalls,
          gifts, payment, sess, resp, legacy, rcon, poll, grant, limiter>>

storeVars == <<item, user, coins, transactions, purchases>>
workerVars == <<wpc, wqueue, wloc>>
extVars == <<roleCalls, cmdCalls, roleOk, cmdOk>>
serviceVars == <<rcon, poll, grant, limiter>>
econVars == <<gifts, payment, sess, resp, serviceVars>>
pipelineVars == <<workerVars, req, del, extVars, manualCalls, legacy, serviceVars>>

\* ------------------------------------------------------------ pure helpers
\* str.replace(ph, val) on a template of tokens
Replace(tmpl, ph, val) ==
  [i \in 1..Len(tmpl) |-> IF tmpl[i] = ph THEN val ELSE tmpl[i]]

\* `a or b` on strings
OrElse(a, b) == IF a = "" THEN b ELSE a

\* the command the worker resolves (execute_minecraft_command)
ResolveCommand(tmpl, u) ==
  Replace(Replace(Replace(tmpl, "{username}", u.username),
                  "{discord_id}", u.discord_id),
          "{minecraft_uuid}", OrElse(u.minecraft_uuid, u.username))

\* template.format(username=...) raises on None and on any other named field
FormatRaises(tmpl) ==
  \/ tmpl = NoText
  \/ \E i \in 1..Len(tmpl) : tmpl[i] \in {"{discord_id}", "{minecraft_uuid}"}

\* the command the manual-fulfill endpoint generates
FormatCommand(tmpl, u) ==
  Replace(tmpl, "{username}", OrElse(u.minecraft_uuid, u.username))

\* the conditions of fulfill_purchase
NeedsRole(it) == it.item_type \in {"discord", "both"} /\ it.discord_role_id # NoRole
NeedsCommand(it) ==
  it.item_type \in {"minecraft", "both"} /\ it.minecraft_command_template # NoText

\* the status the sweep writes after fulfill_purchase returned
TerminalStatusStuck(success) == IF success THEN "fulfilled" ELSE "processing"
TerminalStatus(success) == IF success THEN "fulfilled" ELSE "failed"

\* the status the sweep writes when the item or the user is missing
UnresolvedStatusSkipped(old) == old
UnresolvedStatus(old) == "failed"

\* what execute_minecraft_command leaves in purchase.minecraft_command
RecordedCommandAlways(old, command, ok) == command
RecordedCommand(old, command, ok) == IF ok THEN command ELSE old

\* what the terminal commit leaves in purchase.discord_role_assigned
StoredRoleFlagOnSuccess(old, assigned, success) == IF assigned /\ success THEN TRUE ELSE old
StoredRoleFlag(old, assigned, success) == IF assigned THEN TRUE ELSE old

\* where fulfill_purchase goes after the role grant returned
AfterRoleShortCircuit(it, ok) == IF NeedsCommand(it) /\ ok THEN "cmd_call" ELSE "settle"
AfterRole(it, ok) == IF NeedsCommand(it) THEN "cmd_call" ELSE "settle"

\* Purchase.query.filter_by(status='pending').all()
RECURSIVE PendingFrom(_, _)
PendingFrom(ps, i) ==
  IF i > Len(ps) THEN <<>>
  ELSE IF ps[i].status = "pending" THEN <<i>> \o PendingFrom(ps, i + 1)
       ELSE PendingFrom(ps, i + 1)

PendingIds(ps) == PendingFrom(ps, 1)

NoLoc == [item |-> [present |-> FALSE, price |-> 1, item_type |-> "minecraft",
                    discord_role_id |-> NoRole, minecraft_command_template |-> NoText,
                    is_available |-> TRUE],
          assigned |-> FALSE, command |-> NoText, success |-> TRUE,
          roleCalls |-> 0, cmdCalls |-> 0, roleRet |-> "none", cmdRet |-> "none"]

NoReq == [pc |-> "idle", p |-> 0, command |-> NoText]

\* a session that serves no request
NoSess == [op |-> "none", u |-> 0, to |-> 0, q |-> 0, amount |-> 0, seen |-> 0, seenTo |-> 0]

\* the prefix-command bot's sweep at rest: nothing read, nothing staged
NoLegacy == [pc |-> "idle", queue |-> <<>>, staged |-> <<>>, command |-> NoText]

\* no execute_command call has been made
NoRcon == [pc |-> "idle", password |-> "", opened |-> FALSE, sent |-> FALSE,
           answered |-> FALSE, fault |-> "none", ret |-> "none"]

\* the rows of the minecraft_servers table
Servers == 1..MaxServers

\* None of the error field
NoError == "None"

\* what the polling loop has assigned to a server
NoRow == [checked |-> FALSE, is_online |-> FALSE, error_message |-> NoError,
          outcome |-> "none"]

\* no status has been returned
NoStatus == [raised |-> FALSE, online |-> FALSE, error |-> NoError]

NoPoll == [pc |-> "idle", i |-> 0, rows |-> [s \in Servers |-> NoRow], last |-> NoStatus]

\* self.guilds
GuildIds == 1..MaxGuilds

\* no assign_discord_role call has been made
NoGrant == [pc |-> "idle", guilds |-> [g \in GuildIds |-> [member |-> FALSE, role |-> FALSE]],
            valid |-> TRUE, g |-> 0, tried |-> {}, added |-> {}, ret |-> "none"]

\* the keys of rate_limit_storage (request.remote_addr)
Keys == {"ip1", "ip2"}

\* no rate_limit call has been made
NoCall == [key |-> "", max_requests |-> 0, window_minutes |-> 0, before |-> 0,
           ret |-> FALSE]

\* the clock at 0 and rate_limit_storage = defaultdict(list); `accepted` keeps
\* every timestamp rate_limit has appended, `last` the latest call
NoLimiter == [now |-> 0, storage |-> [k \in Keys |-> <<>>],
              accepted |-> [k \in Keys |-> <<>>], last |-> NoCall]

\* ------------------------------------------------------------------ Init
Init ==
  /\ item \in ItemRows
  /\ user \in UserRows
  /\ coins = [u \in Users |-> StartCoins]
  /\ transactions = <<>>
  /\ purchases = <<>>
  /\ wpc = [w \in Workers |-> "idle"]
  /\ wqueue = [w \in Workers |-> <<>>]
  /\ wloc = [w \in Workers |-> NoLoc]
  /\ req = NoReq
  /\ del = "idle"
  /\ roleCalls = [p \in PIds |-> 0]
  /\ cmdCalls = [p \in PIds |-> 0]
  /\ roleOk = [p \in PIds |-> FALSE]
  /\ cmdOk = [p \in PIds |-> FALSE]
  /\ manualCalls = 0
  /\ gifts = <<>>
  /\ payment = "none"
  /\ sess = [s \in Sessions |-> NoSess]
  /\ resp = "none"
  /\ legacy = NoLegacy
  /\ rcon = NoRcon
  /\ poll = NoPoll
  /\ grant = NoGrant
  /\ limiter = NoLimiter

\* ------------------------------------------------------------- buy command
\* buy_command / QuickBuyModal.on_submit: one commit of debit, Purchase, Transaction
Buy(q) ==
  /\ Len(purchases) < MaxPurchases
  /\ q > 0
  /\ item.present /\ item.is_available
  /\ coins[1] >= item.price * q
  /\ coins' = [coins EXCEPT ![1] = @ - item.price * q]
  /\ purchases' = Append(purchases,
        [user_id |-> 1, item_id |-> 1, quantity |-> q, total_cost |-> item.price * q,
         status |-> "pending", fulfilled_at |-> NoTime, minecraft_command |-> NoText,
         discord_role_assigned |-> FALSE])
  /\ transactions' = Append(transactions,
        [user_id |-> 1, transaction_type |-> "purchase", amount |-> 0 - item.price * q,
         reference_id |-> "purchase_None"])
  /\ UNCHANGED <<item, user, workerVars, req, del, extVars, manualCalls, econVars, legacy>>

\* ------------------------------------------------------- fulfillment worker
\* the loop moves on to the next purchase of pending_purchases, or the sweep ends
Advance(w) ==
  /\ wqueue' = [wqueue EXCEPT ![w] = Tail(@)]
  /\ wloc' = [wloc EXCEPT ![w] = NoLoc]
  /\ wpc' = [wpc EXCEPT ![w] = IF Len(wqueue[w]) > 1 THEN "claim" ELSE "idle"]

\* a sweep starts: the pending purchases are read
StartSweep(w) ==
  /\ wpc[w] = "idle"
  /\ PendingIds(purchases) # <<>>
  /\ wqueue' = [wqueue EXCEPT ![w] = PendingIds(purchases)]
  /\ wpc' = [wpc EXCEPT ![w] = "claim"]
  /\ wloc' = [wloc EXCEPT ![w] = NoLoc]
  /\ UNCHANGED <<storeVars, req, del, extVars, manualCalls, econVars, legacy>>

\* purchase.status = 'processing'; db.session.commit()
Claim(w) ==
  /\ wpc[w] = "claim"
  /\ LET p == Head(wqueue[w]) IN
       purchases' = [purchases EXCEPT ![p].status = "processing"]
  /\ wpc' = [wpc EXCEPT ![w] = "resolve"]
  /\ wloc' = [wloc EXCEPT ![w] = NoLoc]
  /\ UNCHANGED <<item, user, coins, transactions, wqueue, req, del, extVars, manualCalls, econVars, legacy>>

\* item and user are looked up; a missing one fails the purchase, otherwise
\* fulfill_purchase starts and its first external call (if any) is made
Resolve(w) ==
  /\ wpc[w] = "resolve"
  /\ LET p == Head(wqueue[w]) IN
       IF ~item.present   \* `not item or not user`: no operation removes a user
       THEN /\ purchases' = [purchases EXCEPT ![p].status = UnresolvedStatus(@)]
            /\ Advance(w)
            /\ UNCHANGED extVars
       ELSE /\ wloc' = [wloc EXCEPT ![w] =
                 [NoLoc EXCEPT !.item = item,
                               !.roleCalls = IF NeedsRole(item) THEN 1 ELSE 0,
                               !.cmdCalls = IF ~NeedsRole(item) /\ NeedsCommand(item)
                                            THEN 1 ELSE 0]]
            /\ wpc' = [wpc EXCEPT ![w] =
                 IF NeedsRole(item) THEN "role_call"
                 ELSE IF NeedsCommand(item) THEN "cmd_call" ELSE "settle"]
            /\ roleCalls' = [roleCalls EXCEPT ![p] = IF NeedsRole(item) THEN @ + 1 ELSE @]
            /\ cmdCalls' = [cmdCalls EXCEPT ![p] =
                 IF ~NeedsRole(item) /\ NeedsCommand(item) THEN @ + 1 ELSE @]
            /\ UNCHANGED <<purchases, wqueue, roleOk, cmdOk>>
  /\ UNCHANGED <<item, user, coins, transactions, req, del, manualCalls, econVars, legacy>>

\* assign_discord_role returns; the command call (if required) is made next
RoleReturn(w, ok) ==
  /\ wpc[w] = "role_call"
  /\ LET p == Head(wqueue[w])
         nxt == AfterRole(wloc[w].item, ok) IN
       /\ wloc' = [wloc EXCEPT ![w].assigned = IF ok THEN TRUE ELSE @,
                               ![w].roleRet = IF ok THEN "ok" ELSE "failed",
                               ![w].success = IF ok THEN @ ELSE FALSE,
                               ![w].cmdCalls = IF nxt = "cmd_call" THEN 1 ELSE @]
       /\ wpc' = [wpc EXCEPT ![w] = nxt]
       /\ roleOk' = [roleOk EXCEPT ![p] = @ \/ ok]
       /\ cmdCalls' = [cmdCalls EXCEPT ![p] = IF nxt = "cmd_call" THEN @ + 1 ELSE @]
  /\ UNCHANGED <<storeVars, wqueue, req, del, roleCalls, cmdOk, manualCalls, econVars, legacy>>

\* execute_command returns inside execute_minecraft_command
CmdReturn(w, ok) ==
  /\ wpc[w] = "cmd_call"
  /\ LET p == Head(wqueue[w])
         command == ResolveCommand(wloc[w].item.minecraft_command_template, user) IN
       /\ wloc' = [wloc EXCEPT ![w].command = RecordedCommand(@, command, ok),
                               ![w].cmdRet = IF ok THEN "ok" ELSE "failed",
                               ![w].success = IF ok THEN @ ELSE FALSE]
       /\ cmdOk' = [cmdOk EXCEPT ![p] = @ \/ ok]
  /\ wpc' = [wpc EXCEPT ![w] = "settle"]
  /\ UNCHANGED <<storeVars, wqueue, req, del, roleCalls, cmdCalls, roleOk, manualCalls, econVars, legacy>>

\* the terminal status is set and committed with what fulfill_purchase assigned
SettleWithRefund(w) ==
  /\ wpc[w] = "settle"
  /\ LET p == Head(wqueue[w])
         st == TerminalStatus(wloc[w].success) IN
       /\ purchases' = [purchases EXCEPT ![p].status = st]
       /\ coins' = [coins EXCEPT ![1] = IF st = "failed" THEN @ + purchases[p].total_cost ELSE @]
       /\ transactions' = IF st = "failed"
            THEN Append(transactions,
                   [user_id |-> 1, transaction_type |-> "refund",
                    amount |-> purchases[p].total_cost, reference_id |-> "purchase_None"])
            ELSE transactions
  /\ Advance(w)
  /\ UNCHANGED <<item, user, req, del, extVars, manualCalls, econVars, legacy>>

Settle(w) ==
  /\ wpc[w] = "settle"
  /\ LET p == Head(wqueue[w])
         l == wloc[w]
         st == TerminalStatus(l.success) IN
       purchases' = [purchases EXCEPT
         ![p].status = st,
         ![p].fulfilled_at = IF st = "fulfilled" THEN SomeTime ELSE @,
         ![p].discord_role_assigned = StoredRoleFlag(@, l.assigned, l.success),
         ![p].minecraft_command = IF l.command # NoText THEN l.command ELSE @]
  /\ Advance(w)
  /\ UNCHANGED <<item, user, coins, transactions, req, del, extVars, manualCalls, econVars, legacy>>

\* ------------------------------------------------- manual-fulfill endpoint
\* POST /purchases/<id>/fulfill up to the call of execute_command
ManualBegin(p) ==
  /\ req.pc = "idle"
  /\ p \in 1..Len(purchases)
  /\ IF \/ purchases[p].status # "pending"           \* 400
        \/ ~item.present                             \* 404
        \/ FormatRaises(item.minecraft_command_template)  \* 500
     THEN UNCHANGED <<req, manualCalls>>
     ELSE /\ manualCalls < MaxManualCalls
          /\ req' = [pc |-> "call", p |-> p,
                     command |-> FormatCommand(item.minecraft_command_template, user)]
          /\ manualCalls' = manualCalls + 1
  /\ UNCHANGED <<storeVars, workerVars, del, extVars, econVars, legacy>>

\* execute_command returned to the endpoint
ManualEnd(ok) ==
  /\ req.pc = "call"
  /\ IF ok
     THEN /\ purchases' = [purchases EXCEPT
               ![req.p].status = "fulfilled",
               ![req.p].fulfilled_at = SomeTime,
               ![req.p].minecraft_command = req.command]
          /\ cmdOk' = [cmdOk EXCEPT ![req.p] = TRUE]
     ELSE UNCHANGED <<purchases, cmdOk>>
  /\ req' = NoReq
  /\ UNCHANGED <<item, user, coins, transactions, workerVars, del,
                 roleCalls, cmdCalls, roleOk, manualCalls, econVars, legacy>>

\* ------------------------------------------------------ delete-item endpoint
\* DELETE /items/<id>: the item is read and its purchases are counted; with
\* purchases the handler sets item.is_active, which is no column of the row
DeleteItemCount ==
  /\ del = "idle"
  /\ item.present
  /\ del' = IF Len(purchases) > 0 THEN "idle" ELSE "delete"
  /\ UNCHANGED <<storeVars, workerVars, req, extVars, manualCalls, econVars, legacy>>

\* db.session.delete(item); db.session.commit()
DeleteItemCommit ==
  /\ del = "delete"
  /\ item' = [item EXCEPT !.present = FALSE]
  /\ del' = "idle"
  /\ UNCHANGED <<user, coins, transactions, purchases, workerVars, req, extVars, manualCalls, econVars, legacy>>

\* ------------------------------------------------------ update-item endpoint
\* the attributes of an Item object
ItemAttributes ==
  {"id", "name", "description", "price", "category", "item_type", "discord_role_id",
   "minecraft_command_template", "image_url", "is_available", "created_at",
   "updated_at", "purchases"}

\* `data.get('is_active', item.is_active)` reads an attribute before the commit
UpdateItemRaises == "is_active" \notin ItemAttributes

\* the prices an update asks for
Prices == {1, 2}

\* PUT /items/<id>: the new values are assigned to the loaded item; when the
\* handler raises before its commit the session is discarded with them
UpdateItemRepricing(price) ==
  /\ item.present
  /\ item' = [item EXCEPT !.price = price]
  /\ purchases' = [p \in 1..Len(purchases) |->
                     [purchases[p] EXCEPT !.total_cost = price * purchases[p].quantity]]
  /\ UNCHANGED <<user, coins, transactions, workerVars, req, del, extVars, manualCalls,
                 econVars, legacy>>

UpdateItem(price) ==
  /\ item.present
  /\ item' = IF UpdateItemRaises THEN item ELSE [item EXCEPT !.price = price]
  /\ UNCHANGED <<user, coins, transactions, purchases, workerVars, req, del, extVars,
                 manualCalls, econVars, legacy>>

\* ------------------------------------------------------------------- Next
Next ==
  \/ \E q \in Quantities : Buy(q)
  \/ \E w \in Workers : StartSweep(w)
  \/ \E w \in Workers : Claim(w)
  \/ \E w \in Workers : Resolve(w)
  \/ \E w \in Workers, ok \in BOOLEAN : RoleReturn(w, ok)
  \/ \E w \in Workers, ok \in BOOLEAN : CmdReturn(w, ok)
  \/ \E w \in Workers : Settle(w)
  \/ \E p \in PIds : ManualBegin(p)
  \/ \E ok \in BOOLEAN : ManualEnd(ok)
  \/ DeleteItemCount
  \/ DeleteItemCommit
  \/ \E price \in Prices : UpdateItem(price)

Spec == Init /\ [][Next]_vars

\* the sweep keeps being scheduled and every external call returns
Fairness ==
  \A w \in Workers :
    /\ WF_vars(StartSweep(w))
    /\ WF_vars(Claim(w))
    /\ WF_vars(Resolve(w))
    /\ WF_vars(\E ok \in BOOLEAN : RoleReturn(w, ok))
    /\ WF_vars(\E ok \in BOOLEAN : CmdReturn(w, ok))
    /\ WF_vars(Settle(w))

LiveSpec == Init /\ [][Next]_vars /\ Fairness

\* ------------------------------------------- exceptions from the store
\* a commit or a query of the try block raises: nothing is written, the
\* session is rolled back and the handler of line 204 runs
WorkerRaise(w) ==
  /\ wpc[w] \in {"claim", "resolve", "settle"}
  /\ wpc' = [wpc EXCEPT ![w] = "except"]
  /\ wloc' = [wloc EXCEPT ![w] = NoLoc]
  /\ UNCHANGED <<storeVars, wqueue, req, del, extVars, manualCalls, econVars, legacy>>

\* the handler: purchase.status = 'failed'; db.session.commit()
HandlerCommit(w) ==
  /\ wpc[w] = "except"
  /\ purchases' = [purchases EXCEPT ![Head(wqueue[w])].status = "failed"]
  /\ Advance(w)
  /\ UNCHANGED <<item, user, coins, transactions, req, del, extVars, manualCalls, econVars, legacy>>

\* the handler's own commit raises: the outer handler of line 209 ends the sweep
HandlerRaise(w) ==
  /\ wpc[w] = "except"
  /\ wpc' = [wpc EXCEPT ![w] = "idle"]
  /\ wqueue' = [wqueue EXCEPT ![w] = <<>>]
  /\ wloc' = [wloc EXCEPT ![w] = NoLoc]
  /\ UNCHANGED <<storeVars, req, del, extVars, manualCalls, econVars, legacy>>

NextFault ==
  \/ Next
  \/ \E w \in Workers : WorkerRaise(w)
  \/ \E w \in Workers : HandlerCommit(w)
  \/ \E w \in Workers : HandlerRaise(w)

FaultSpec == Init /\ [][NextFault]_vars

\* ------------------------------------------------- a bot process stops
\* the process of bot instance w stops between the commit of a claim and the
\* terminal commit and is started again: the sweep's position and its session
\* are gone, the rows stay as committed, and setup_hook starts the sweep loop
\* anew
Crash(w) ==
  /\ wpc[w] \in {"resolve", "role_call", "cmd_call", "settle"}
  /\ wpc' = [wpc EXCEPT ![w] = "idle"]
  /\ wqueue' = [wqueue EXCEPT ![w] = <<>>]
  /\ wloc' = [wloc EXCEPT ![w] = NoLoc]
  /\ UNCHANGED <<storeVars, req, del, extVars, manualCalls, econVars, legacy>>

NextCrash ==
  \/ Next
  \/ \E w \in Workers : Crash(w)

CrashSpec == Init /\ [][NextCrash]_vars /\ Fairness

\* ============================================================== balances
\* inputs of the balance-changing requests
BuyQuantities == {1, 2}
GiftAmounts == {0, 1, 2}
AdjustAmounts == {0 - 3, 0 - 1, 1}

\* the catalogue row init_database seeds
DefaultItem ==
  [present |-> TRUE, price |-> 1, item_type |-> "minecraft", discord_role_id |-> NoRole,
   minecraft_command_template |-> <<"give", "{username}">>, is_available |-> TRUE]

\* CheckConstraint('coins >= 0') of the users table
CoinsConstraintOff(c) == TRUE
CoinsConstraint(c) == c >= 0

\* CheckConstraint('sender_id != recipient_id') of the gifts table
GiftConstraintOff(from, to) == TRUE
GiftConstraint(from, to) == from # to

\* `sender_id == recipient_id` on the JSON values of the request: equal ids of
\* different JSON types (1 and "1") compare unequal
SameJsonId(from, to, sameType) == from = to /\ sameType

\* 'admin_add' if amount > 0 else 'admin_remove'
AdjustType(amount) == IF amount > 0 THEN "admin_add" ELSE "admin_remove"

\* a Transaction row
TransactionRow(u, type, amount, ref) ==
  [user_id |-> u, transaction_type |-> type, amount |-> amount, reference_id |-> ref]

\* the balance a read-modify-write of the ORM stores: the value the session
\* loaded, changed by the amount
StoredBalance(seen, current, delta) == seen + delta

\* db.func.sum(Transaction.amount) over the user's 'earn' rows of today
RECURSIVE EarnedFrom(_, _, _)
EarnedFrom(ts, u, i) ==
  IF i > Len(ts) THEN 0
  ELSE (IF ts[i].user_id = u /\ ts[i].transaction_type = "earn" THEN ts[i].amount ELSE 0)
       + EarnedFrom(ts, u, i + 1)

EarnedToday(ts, u) == EarnedFrom(ts, u, 1)

HasEarned(ts, u) ==
  \E i \in 1..Len(ts) : ts[i].user_id = u /\ ts[i].transaction_type = "earn"

\* min(coins_per_message, max_daily_coins - today_earnings)
CoinsToAward(today) ==
  IF CoinsPerMessage < MaxDailyCoins - today THEN CoinsPerMessage ELSE MaxDailyCoins - today

\* number of sessions that serve a request of kind op
Loaded(op) == Cardinality({s \in Sessions : sess[s].op = op})

\* the answers that refuse a request: the insufficient-funds check, the
\* coins and gift constraints of the tables, an error of the payment provider
Refusals == {"insufficient", "coins_check", "gift_check", "error"}

\* `user.coins < total_cost` / `sender.coins < amount`
InsufficientNever(balance, amount) == FALSE
Insufficient(balance, amount) == balance < amount

\* number of sessions that serve a request
Busy == Cardinality({s \in Sessions : sess[s] # NoSess})

\* the ledger has room for the rows of one more request
LedgerHasRoom == Len(transactions) + Busy < MaxLedger

\* the request of session s ends: its session is removed; a refusal is
\* remembered in resp
Finish(s, code) ==
  /\ sess' = [sess EXCEPT ![s] = NoSess]
  /\ resp' = IF code \in Refusals THEN code ELSE resp

\* the request is answered before anything was loaded for a write
Answer(code) ==
  /\ resp' = IF code \in Refusals THEN code ELSE resp
  /\ UNCHANGED <<storeVars, gifts, payment, sess>>

EconInit ==
  /\ item = DefaultItem
  /\ user \in UserRows
  /\ coins = [u \in Users |-> StartCoins]
  /\ transactions = <<>>
  /\ purchases = <<>>
  /\ wpc = [w \in Workers |-> "idle"]
  /\ wqueue = [w \in Workers |-> <<>>]
  /\ wloc = [w \in Workers |-> NoLoc]
  /\ req = NoReq
  /\ del = "idle"
  /\ roleCalls = [p \in PIds |-> 0]
  /\ cmdCalls = [p \in PIds |-> 0]
  /\ roleOk = [p \in PIds |-> FALSE]
  /\ cmdOk = [p \in PIds |-> FALSE]
  /\ manualCalls = 0
  /\ gifts = <<>>
  /\ payment = "none"
  /\ sess = [s \in Sessions |-> NoSess]
  /\ resp = "none"
  /\ legacy = NoLegacy
  /\ rcon = NoRcon
  /\ poll = NoPoll
  /\ grant = NoGrant
  /\ limiter = NoLimiter

\* buy_command / QuickBuyModal.on_submit up to the insufficient-funds check
BuyRead(w, q) ==
  /\ sess[w] = NoSess
  /\ Len(purchases) + Loaded("buy") < MaxPurchases
  /\ LedgerHasRoom
  /\ IF q <= 0 \/ ~(item.present /\ item.is_available)
     THEN Answer("invalid")
     ELSE IF Insufficient(coins[1], item.price * q)
     THEN Answer("insufficient")
     ELSE /\ sess' = [sess EXCEPT ![w] =
               [NoSess EXCEPT !.op = "buy", !.u = 1, !.q = q,
                              !.amount = item.price * q, !.seen = coins[1]]]
          /\ UNCHANGED <<storeVars, gifts, payment, resp>>
  /\ UNCHANGED pipelineVars

\* the buy's commit: debit, Purchase and Transaction together
BuyCommitWithoutLedger(w) ==
  /\ sess[w].op = "buy"
  /\ coins' = [coins EXCEPT ![sess[w].u] = sess[w].seen - sess[w].amount]
  /\ purchases' = Append(purchases,
       [user_id |-> sess[w].u, item_id |-> 1, quantity |-> sess[w].q,
        total_cost |-> sess[w].amount, status |-> "pending", fulfilled_at |-> NoTime,
        minecraft_command |-> NoText, discord_role_assigned |-> FALSE])
  /\ Finish(w, "ok")
  /\ UNCHANGED <<item, user, transactions, gifts, payment, pipelineVars>>

BuyCommit(w) ==
  /\ sess[w].op = "buy"
  /\ LET r == sess[w]
         new == StoredBalance(r.seen, coins[r.u], 0 - r.amount) IN
       IF CoinsConstraint(new)
       THEN /\ coins' = [coins EXCEPT ![r.u] = new]
            /\ purchases' = Append(purchases,
                 [user_id |-> r.u, item_id |-> 1, quantity |-> r.q, total_cost |-> r.amount,
                  status |-> "pending", fulfilled_at |-> NoTime,
                  minecraft_command |-> NoText, discord_role_assigned |-> FALSE])
            /\ transactions' = Append(transactions,
                 TransactionRow(r.u, "purchase", 0 - r.amount, "purchase_None"))
            /\ Finish(w, "ok")
       ELSE /\ Finish(w, "coins_check")
            /\ UNCHANGED <<coins, purchases, transactions>>
  /\ UNCHANGED <<item, user, gifts, payment, pipelineVars>>

\* gift_command (bot) / send_gift (web) up to the insufficient-funds check
GiftRead(s, from, to, a, sameType) ==
  /\ sess[s] = NoSess
  /\ LedgerHasRoom
  /\ s \in Workers => sameType
  /\ IF a <= 0 \/ SameJsonId(from, to, sameType)
     THEN Answer("invalid")
     ELSE IF Insufficient(coins[from], a)
     THEN Answer("insufficient")
     ELSE /\ sess' = [sess EXCEPT ![s] =
               [NoSess EXCEPT !.op = "gift", !.u = from, !.to = to, !.amount = a,
                              !.seen = coins[from], !.seenTo = coins[to]]]
          /\ UNCHANGED <<storeVars, gifts, payment, resp>>
  /\ UNCHANGED pipelineVars

\* the gift's commit: both balances, the Gift and the two Transactions
GiftCommit(s) ==
  /\ sess[s].op = "gift"
  /\ LET r == sess[s]
         newFrom == StoredBalance(r.seen, coins[r.u], 0 - r.amount)
         \* sender and recipient of a gift to oneself are one object
         newTo == StoredBalance(IF r.u = r.to THEN newFrom ELSE r.seenTo,
                                coins[r.to], r.amount) IN
       IF GiftConstraint(r.u, r.to) /\ CoinsConstraint(newFrom)
       THEN /\ coins' = [[coins EXCEPT ![r.u] = newFrom] EXCEPT ![r.to] = newTo]
            /\ gifts' = Append(gifts,
                 [sender_id |-> r.u, recipient_id |-> r.to, amount |-> r.amount,
                  status |-> "completed"])
            /\ transactions' = transactions \o
                 << TransactionRow(r.u, "gift_sent", 0 - r.amount, "gift_None"),
                    TransactionRow(r.to, "gift_received", r.amount, "gift_None") >>
            /\ Finish(s, "ok")
       ELSE /\ Finish(s, IF GiftConstraint(r.u, r.to) THEN "coins_check" ELSE "gift_check")
            /\ UNCHANGED <<coins, gifts, transactions>>
  /\ UNCHANGED <<item, user, purchases, payment, pipelineVars>>

\* update_user_coins: the user is loaded; there is no balance check
AdjustRead(u, amount) ==
  /\ sess["web"] = NoSess
  /\ LedgerHasRoom
  /\ sess' = [sess EXCEPT !["web"] =
       [NoSess EXCEPT !.op = "adjust", !.u = u, !.amount = amount, !.seen = coins[u]]]
  /\ UNCHANGED <<storeVars, gifts, payment, resp, pipelineVars>>

\* update_user_coins: the commit, which the table's constraint may refuse
AdjustCommit ==
  /\ sess["web"].op = "adjust"
  /\ LET r == sess["web"]
         new == StoredBalance(r.seen, coins[r.u], r.amount) IN
       IF CoinsConstraint(new)
       THEN /\ coins' = [coins EXCEPT ![r.u] = new]
            /\ transactions' = Append(transactions,
                 TransactionRow(r.u, AdjustType(r.amount), r.amount, ""))
            /\ Finish("web", "ok")
       ELSE /\ Finish("web", "coins_check")
            /\ UNCHANGED <<coins, transactions>>
  /\ UNCHANGED <<item, user, purchases, gifts, payment, pipelineVars>>

\* process_coin_earning up to the award: cooldown and daily limit
EarnRead(w, u, elapsed) ==
  /\ sess[w] = NoSess
  /\ LedgerHasRoom
  /\ IF \/ HasEarned(transactions, u) /\ ~elapsed
        \/ EarnedToday(transactions, u) >= MaxDailyCoins
     THEN Answer("skipped")
     ELSE /\ sess' = [sess EXCEPT ![w] =
               [NoSess EXCEPT !.op = "earn", !.u = u,
                              !.amount = CoinsToAward(EarnedToday(transactions, u)),
                              !.seen = coins[u]]]
          /\ UNCHANGED <<storeVars, gifts, payment, resp>>
  /\ UNCHANGED pipelineVars

\* process_coin_earning: the award is committed
EarnCommit(w) ==
  /\ sess[w].op = "earn"
  /\ LET r == sess[w] IN
       /\ coins' = [coins EXCEPT ![r.u] = StoredBalance(r.seen, coins[r.u], r.amount)]
       /\ transactions' = Append(transactions, TransactionRow(r.u, "earn", r.amount, ""))
  /\ Finish(w, "ok")
  /\ UNCHANGED <<item, user, purchases, gifts, payment, pipelineVars>>

\* create_payment_intent: a pending payment record for PayCoins coins of user 1,
\* unless the payment provider refuses
CreatePaymentIntent(ok) ==
  /\ sess["web"] = NoSess
  /\ payment = "none"
  /\ payment' = IF ok THEN "pending" ELSE payment
  /\ resp' = IF ok THEN resp ELSE "error"
  /\ UNCHANGED <<storeVars, gifts, sess, pipelineVars>>

\* handle_successful_payment: the record and the user are loaded (the record's
\* status is not looked at)
PaymentSucceededRead ==
  /\ sess["web"] = NoSess
  /\ payment # "none"
  /\ LedgerHasRoom
  /\ sess' = [sess EXCEPT !["web"] =
       [NoSess EXCEPT !.op = "award", !.u = 1, !.amount = PayCoins, !.seen = coins[1]]]
  /\ UNCHANGED <<storeVars, gifts, payment, resp, pipelineVars>>

\* handle_successful_payment: status, award and Transaction are committed
PaymentSucceededCommit ==
  /\ sess["web"].op = "award"
  /\ LET r == sess["web"] IN
       /\ coins' = [coins EXCEPT ![r.u] = StoredBalance(r.seen, coins[r.u], r.amount)]
       /\ transactions' = Append(transactions, TransactionRow(r.u, "purchase", r.amount, "pi_1"))
  /\ payment' = "succeeded"
  /\ Finish("web", "ok")
  /\ UNCHANGED <<item, user, purchases, gifts, pipelineVars>>

\* handle_failed_payment
PaymentFailed ==
  /\ sess["web"] = NoSess
  /\ payment # "none"
  /\ payment' = "failed"
  /\ resp' = resp
  /\ UNCHANGED <<storeVars, gifts, sess, pipelineVars>>

\* process_refund up to the provider's answer: only a succeeded payment is
\* refunded, and the provider may refuse
RefundRead(ok) ==
  /\ sess["web"] = NoSess
  /\ LedgerHasRoom
  /\ IF payment # "succeeded"
     THEN Answer("invalid")
     ELSE IF ~ok
     THEN Answer("error")
     ELSE /\ sess' = [sess EXCEPT !["web"] =
               [NoSess EXCEPT !.op = "refund", !.u = 1, !.amount = PayCoins, !.seen = coins[1]]]
          /\ UNCHANGED <<storeVars, gifts, payment, resp>>
  /\ UNCHANGED pipelineVars

\* process_refund: the coins are taken back if the user still has them
RefundCommit ==
  /\ sess["web"].op = "refund"
  /\ LET r == sess["web"] IN
       IF r.seen >= r.amount
       THEN /\ coins' = [coins EXCEPT ![r.u] = StoredBalance(r.seen, coins[r.u], 0 - r.amount)]
            /\ transactions' = Append(transactions,
                 TransactionRow(r.u, "refund", 0 - r.amount, "pi_1"))
       ELSE UNCHANGED <<coins, transactions>>
  /\ payment' = "refunded"
  /\ Finish("web", "ok")
  /\ UNCHANGED <<item, user, purchases, gifts, pipelineVars>>

\* cancel_gift: only a pending Gift is cancelled and refunded to its sender
CancelGift(g) ==
  /\ sess["web"] = NoSess
  /\ g \in 1..Len(gifts)
  /\ IF gifts[g].status # "pending"
     THEN Answer("invalid")
     ELSE /\ gifts' = [gifts EXCEPT ![g].status = "cancelled"]
          /\ coins' = [coins EXCEPT ![gifts[g].sender_id] = @ + gifts[g].amount]
          /\ transactions' = Append(transactions,
               TransactionRow(gifts[g].sender_id, "refund", gifts[g].amount, "gift_cancel"))
          /\ UNCHANGED <<item, user, purchases, payment, sess, resp>>
  /\ UNCHANGED pipelineVars

EconNext ==
  \/ \E w \in Workers, q \in BuyQuantities : BuyRead(w, q)
  \/ \E w \in Workers : BuyCommit(w)
  \/ \E s \in Sessions, from \in Users, to \in Users, a \in GiftAmounts, sameType \in BOOLEAN :
       GiftRead(s, from, to, a, sameType)
  \/ \E s \in Sessions : GiftCommit(s)
  \/ \E u \in Users, amount \in AdjustAmounts : AdjustRead(u, amount)
  \/ AdjustCommit
  \/ \E w \in Workers, u \in Users, elapsed \in BOOLEAN : EarnRead(w, u, elapsed)
  \/ \E w \in Workers : EarnCommit(w)
  \/ \E ok \in BOOLEAN : CreatePaymentIntent(ok)
  \/ PaymentSucceededRead
  \/ PaymentSucceededCommit
  \/ PaymentFailed
  \/ \E ok \in BOOLEAN : RefundRead(ok)
  \/ RefundCommit
  \/ \E g \in 1..MaxLedger : CancelGift(g)

EconSpec == EconInit /\ [][EconNext]_vars

\* ====================================== the sweep of the prefix-command bot
\* DiscordBot.process_pending_purchases (discord_bot.py), run with an
\* application context: no claim to 'processing', one commit after the loop,
\* and a notification to the buyer after a successful command
NoStaged == [status |-> "", fulfilled_at |-> NoTime, minecraft_command |-> NoText]

\* the attributes the session has assigned to purchase p
StagedFor(p) == IF p \in DOMAIN legacy.staged THEN legacy.staged[p] ELSE NoStaged

\* the status the handler of the loop body leaves after the notification raised
AfterNotifyRaise(old) == "failed"

\* the loop moves on; after the last purchase the session is committed
LegacyAdvance(staged) ==
  legacy' = [pc |-> IF Len(legacy.queue) > 1 THEN "resolve" ELSE "commit",
             queue |-> Tail(legacy.queue), staged |-> staged, command |-> NoText]

LegacyStartSweep ==
  /\ legacy.pc = "idle"
  /\ PendingIds(purchases) # <<>>
  /\ legacy' = [NoLegacy EXCEPT !.pc = "resolve", !.queue = PendingIds(purchases)]
  /\ UNCHANGED <<storeVars, workerVars, req, del, extVars, manualCalls, econVars>>

\* user and item are looked up and the command is formatted
LegacyResolve ==
  /\ legacy.pc = "resolve"
  /\ LET p == Head(legacy.queue) IN
       IF ~item.present
       THEN /\ LegacyAdvance(legacy.staged)
            /\ UNCHANGED cmdCalls
       ELSE IF FormatRaises(item.minecraft_command_template)
       THEN /\ LegacyAdvance((p :> [StagedFor(p) EXCEPT !.status = "failed"]) @@ legacy.staged)
            /\ UNCHANGED cmdCalls
       ELSE /\ legacy' = [legacy EXCEPT
                 !.pc = "cmd_call",
                 !.command = FormatCommand(item.minecraft_command_template, user)]
            /\ cmdCalls' = [cmdCalls EXCEPT ![p] = @ + 1]
  /\ UNCHANGED <<storeVars, workerVars, req, del, roleCalls, roleOk, cmdOk, manualCalls,
                 econVars>>

\* execute_command returned; after a success the buyer is looked up for the
\* notification (get_user may know no such user)
LegacyCmdReturn(ok, found) ==
  /\ legacy.pc = "cmd_call"
  /\ LET p == Head(legacy.queue) IN
       IF ok
       THEN LET st == (p :> [status |-> "fulfilled", fulfilled_at |-> SomeTime,
                             minecraft_command |-> legacy.command]) @@ legacy.staged IN
              /\ cmdOk' = [cmdOk EXCEPT ![p] = TRUE]
              /\ IF found
                 THEN legacy' = [legacy EXCEPT !.pc = "notify", !.staged = st]
                 ELSE LegacyAdvance(st)
       ELSE /\ LegacyAdvance((p :> [StagedFor(p) EXCEPT !.status = "failed"]) @@ legacy.staged)
            /\ UNCHANGED cmdOk
  /\ UNCHANGED <<storeVars, workerVars, req, del, roleCalls, cmdCalls, roleOk, manualCalls,
                 econVars>>

\* discord_user.send returned or raised
LegacyNotifyReturn(ok) ==
  /\ legacy.pc = "notify"
  /\ LET p == Head(legacy.queue) IN
       IF ok
       THEN LegacyAdvance(legacy.staged)
       ELSE LegacyAdvance(
              (p :> [StagedFor(p) EXCEPT !.status = AfterNotifyRaise(@)]) @@ legacy.staged)
  /\ UNCHANGED <<storeVars, workerVars, req, del, extVars, manualCalls, econVars>>

\* db.session.commit() after the loop
LegacyCommit ==
  /\ legacy.pc = "commit"
  /\ purchases' = [p \in 1..Len(purchases) |->
       IF p \in DOMAIN legacy.staged
       THEN [purchases[p] EXCEPT
               !.status = legacy.staged[p].status,
               !.fulfilled_at = IF legacy.staged[p].fulfilled_at # NoTime
                                THEN legacy.staged[p].fulfilled_at ELSE @,
               !.minecraft_command = IF legacy.staged[p].minecraft_command # NoText
                                     THEN legacy.staged[p].minecraft_command ELSE @]
       ELSE purchases[p]]
  /\ legacy' = NoLegacy
  /\ UNCHANGED <<item, user, coins, transactions, workerVars, req, del, extVars,
                 manualCalls, econVars>>

LegacyNext ==
  \/ \E q \in Quantities : Buy(q)
  \/ LegacyStartSweep
  \/ LegacyResolve
  \/ \E ok \in BOOLEAN, found \in BOOLEAN : LegacyCmdReturn(ok, found)
  \/ \E ok \in BOOLEAN : LegacyNotifyReturn(ok)
  \/ LegacyCommit

LegacySpec == Init /\ [][LegacyNext]_vars

\* ================================================= the game server client
\* the variables of the store, the sweeps and the balance-changing requests
baseVars == <<storeVars, workerVars, req, del, extVars, manualCalls, legacy,
              gifts, payment, sess, resp>>

\* the rcon_password argument and os.getenv('MINECRAFT_RCON_PASSWORD', '')
Passwords == {"", "secret"}

\* what ends _execute_rcon_command, or the wait for it, early
Faults == {"connect", "timeout", "exception"}

\* the try block of execute_command: True after the thread returned in time,
\* False from the handlers of asyncio.TimeoutError and of Exception
ExecuteCommandResultPropagating(fault) ==
  IF fault = "none" THEN "True" ELSE IF fault = "timeout" THEN "False" ELSE "raised"
ExecuteCommandResult(fault) == IF fault = "none" THEN "True" ELSE "False"

\* execute_command returns
RconReturned(r, fault) ==
  [r EXCEPT !.pc = "returned", !.fault = fault, !.ret = ExecuteCommandResult(fault)]

\* execute_command up to the start of the thread: without a password it
\* returns False at once
ExecuteCommand(arg, default) ==
  /\ rcon.pc \in {"idle", "returned"}
  /\ rcon' = IF OrElse(arg, default) = ""
             THEN [NoRcon EXCEPT !.pc = "returned", !.ret = "False"]
             ELSE [NoRcon EXCEPT !.pc = "connect", !.password = OrElse(arg, default)]
  /\ UNCHANGED <<baseVars, poll, grant, limiter>>

\* `with MCRcon(host, password, port)`: the session is opened, or it raises
RconConnect(ok) ==
  /\ rcon.pc = "connect"
  /\ rcon' = IF ok THEN [rcon EXCEPT !.pc = "send", !.opened = TRUE]
             ELSE RconReturned(rcon, "connect")
  /\ UNCHANGED <<baseVars, poll, grant, limiter>>

\* mcr.command(command): the command is written to the session, or it raises
RconSend(ok) ==
  /\ rcon.pc = "send"
  /\ rcon' = IF ok THEN [rcon EXCEPT !.pc = "read", !.sent = TRUE]
             ELSE RconReturned(rcon, "exception")
  /\ UNCHANGED <<baseVars, poll, grant, limiter>>

\* mcr.command(command): the response is read, or it raises
RconRead(ok) ==
  /\ rcon.pc = "read"
  /\ rcon' = IF ok THEN RconReturned([rcon EXCEPT !.answered = TRUE], "none")
             ELSE RconReturned(rcon, "exception")
  /\ UNCHANGED <<baseVars, poll, grant, limiter>>

\* asyncio.wait_for gives up after 30 seconds
RconTimeout ==
  /\ rcon.pc \in {"connect", "send", "read"}
  /\ rcon' = RconReturned(rcon, "timeout")
  /\ UNCHANGED <<baseVars, poll, grant, limiter>>

\* ---------------------------------------------------------- status polling
\* what JavaServer.lookup and server.status do for one server
Outcomes == {"lookup_error", "refused", "timeout", "answered"}

\* get_server_status: the dictionary it returns
GetServerStatusPropagating(outcome) ==
  IF outcome = "answered" THEN [raised |-> FALSE, online |-> TRUE, error |-> NoError]
  ELSE [raised |-> TRUE, online |-> FALSE, error |-> NoError]
GetServerStatus(outcome) ==
  IF outcome = "answered" THEN [raised |-> FALSE, online |-> TRUE, error |-> NoError]
  ELSE IF outcome = "timeout" THEN [raised |-> FALSE, online |-> FALSE, error |-> "Timeout"]
  ELSE [raised |-> FALSE, online |-> FALSE, error |-> "str(e)"]

\* the body of the loop of update_all_server_status for one server
ServerRow(status, outcome) ==
  IF status.raised
  THEN [checked |-> TRUE, is_online |-> FALSE, error_message |-> "str(e)",
        outcome |-> outcome]
  ELSE [checked |-> TRUE, is_online |-> status.online,
        error_message |-> IF status.online THEN NoError ELSE status.error,
        outcome |-> outcome]

\* update_all_server_status: servers = MinecraftServer.query.all()
UpdateAllServerStatus ==
  /\ poll.pc \in {"idle", "done"}
  /\ poll' = [NoPoll EXCEPT !.pc = "loop", !.i = 1]
  /\ UNCHANGED <<baseVars, rcon, grant, limiter>>

\* one server is queried and its row is assigned
PollServer(outcome) ==
  /\ poll.pc = "loop"
  /\ poll' = [poll EXCEPT
       !.rows[poll.i] = ServerRow(GetServerStatus(outcome), outcome),
       !.last = GetServerStatus(outcome),
       !.i = @ + 1,
       !.pc = IF poll.i < MaxServers THEN "loop" ELSE "commit"]
  /\ UNCHANGED <<baseVars, rcon, grant, limiter>>

\* db.session.commit() after the loop
PollCommit ==
  /\ poll.pc = "commit"
  /\ poll' = [poll EXCEPT !.pc = "done"]
  /\ UNCHANGED <<baseVars, rcon, grant, limiter>>

\* --------------------------------------------------------------- role grant
\* per guild: whether get_member and get_role find the member and the role
Guilds == [GuildIds -> [member : BOOLEAN, role : BOOLEAN]]

\* what assign_discord_role returns after member.add_roles returned or raised
AfterAddRolesIgnoringFailure(ok) == "True"
AfterAddRoles(ok) == IF ok THEN "True" ELSE "False"

\* assign_discord_role is called; a role_id that is no number names no role
AssignDiscordRole(guilds, valid) ==
  /\ grant.pc \in {"idle", "returned"}
  /\ valid \/ \A g \in GuildIds : ~guilds[g].role
  /\ grant' = [NoGrant EXCEPT !.pc = "search", !.guilds = guilds, !.valid = valid, !.g = 1]
  /\ UNCHANGED <<baseVars, rcon, poll, limiter>>

\* one pass of the loop over self.guilds up to the call of add_roles;
\* int(role_id) raises on a role_id that is no number
SearchGuild ==
  /\ grant.pc = "search"
  /\ grant' =
       IF grant.guilds[grant.g].member /\ ~grant.valid
       THEN [grant EXCEPT !.pc = "returned", !.ret = "False"]
       ELSE IF grant.guilds[grant.g].member /\ grant.guilds[grant.g].role
       THEN [grant EXCEPT !.pc = "add_roles", !.tried = @ \cup {grant.g}]
       ELSE IF grant.g < MaxGuilds
       THEN [grant EXCEPT !.g = @ + 1]
       ELSE [grant EXCEPT !.pc = "returned", !.ret = "False"]
  /\ UNCHANGED <<baseVars, rcon, poll, limiter>>

\* member.add_roles returned or raised
AddRolesReturn(ok) ==
  /\ grant.pc = "add_roles"
  /\ grant' = [grant EXCEPT !.pc = "returned",
                            !.added = IF ok THEN @ \cup {grant.g} ELSE @,
                            !.ret = AfterAddRoles(ok)]
  /\ UNCHANGED <<baseVars, rcon, poll, limiter>>

RemoteNext ==
  \/ \E arg \in Passwords, default \in Passwords : ExecuteCommand(arg, default)
  \/ \E ok \in BOOLEAN : RconConnect(ok)
  \/ \E ok \in BOOLEAN : RconSend(ok)
  \/ \E ok \in BOOLEAN : RconRead(ok)
  \/ RconTimeout
  \/ UpdateAllServerStatus
  \/ \E outcome \in Outcomes : PollServer(outcome)
  \/ PollCommit
  \/ \E guilds \in Guilds, valid \in BOOLEAN : AssignDiscordRole(guilds, valid)
  \/ SearchGuild
  \/ \E ok \in BOOLEAN : AddRolesReturn(ok)

RemoteSpec == EconInit /\ [][RemoteNext]_vars

\* ============================================================ rate limiter
\* seconds in a minute (window_minutes * 60)
Minute == 60

\* the limits and windows rate_limit is called with
MaxRequests == {1, 2}
WindowMinutes == {1, 2}

\* [timestamp for timestamp in ts if timestamp > window_start]
Kept(ts, window_start) == SelectSeq(ts, LAMBDA t : t > window_start)

\* time.time() moves on
Tick ==
  /\ limiter.now < MaxTime * Minute
  /\ limiter' = [limiter EXCEPT !.now = @ + Minute]
  /\ UNCHANGED <<baseVars, rcon, poll, grant>>

\* SecurityManager.rate_limit; `before` is the number of timestamps appended
\* for the key that lie inside the window of this call
RateLimit(key, max_requests, window_minutes) ==
  /\ Len(limiter.accepted[key]) < MaxAccepted
  /\ LET current_time == limiter.now
         window_start == current_time - window_minutes * Minute
         kept == Kept(limiter.storage[key], window_start)
         call == [key |-> key, max_requests |-> max_requests,
                  window_minutes |-> window_minutes,
                  before |-> Len(Kept(limiter.accepted[key], window_start)),
                  ret |-> ~(Len(kept) >= max_requests)]
     IN limiter' =
          IF Len(kept) >= max_requests
          THEN [limiter EXCEPT !.storage[key] = kept, !.last = call]
          ELSE [limiter EXCEPT !.storage[key] = Append(kept, current_time),
                               !.accepted[key] = Append(@, current_time),
                               !.last = call]
  /\ UNCHANGED <<baseVars, rcon, poll, grant>>

LimitNext ==
  \/ Tick
  \/ \E key \in Keys, max_requests \in MaxRequests, window_minutes \in WindowMinutes :
       RateLimit(key, max_requests, window_minutes)

LimitSpec == EconInit /\ [][LimitNext]_vars

\* ================================================================ claims
Terminal == {"fulfilled", "failed"}
Created(p) == p \in 1..Len(purchases)

\* bot instance w is at position pc and takes its next step
WorkerSteps(w, pc) == wpc[w] = pc /\ wpc'[w] # pc

\* an external call for purchase p has been started and has not returned
CallInFlight(p) ==
  \/ \E w \in Workers : wpc[w] \in {"role_call", "cmd_call"} /\ Head(wqueue[w]) = p
  \/ req.pc = "call" /\ req.p = p

\* the item's kind asks for the side effect
KindNeedsRole == item.item_type \in {"discord", "both"}
KindNeedsCommand == item.item_type \in {"minecraft", "both"}

\* C1: the only status changes of a Purchase are pending -> processing,
\* processing -> fulfilled and processing -> failed, whichever operation writes
\* the status (the worker sweep, the manual-fulfill endpoint).
C1_OnlyLifecycleTransitions ==
  [][\A p \in PIds :
       (Created(p) /\ purchases'[p].status # purchases[p].status)
         => <<purchases[p].status, purchases'[p].status>> \in
              {<<"pending", "processing">>, <<"processing", "fulfilled">>,
               <<"processing", "failed">>}]_vars

\* C2: when two sweeps have read the same pending Purchase, the role grant and
\* the remote command are each attempted at most once for it by the workers.
C2_SideEffectsAttemptedOnce ==
  \A p \in PIds : roleCalls[p] <= 1 /\ cmdCalls[p] <= 1

\* C3: no external call for a Purchase is in flight while the stored status of
\* that Purchase is still 'pending'.
C3_NoCallWhilePending ==
  \A p \in PIds : (Created(p) /\ CallInFlight(p)) => purchases[p].status # "pending"

\* C4: a Purchase the worker settled is 'fulfilled' only if every side effect
\* its item's kind requires succeeded for it (role grant for 'discord' and
\* 'both', remote command for 'minecraft' and 'both').
C4_FulfilledOnlyIfAllSucceeded ==
  \A p \in PIds :
    (Created(p) /\ purchases[p].status = "fulfilled" /\ manualCalls = 0)
      => /\ KindNeedsRole => roleOk[p]
         /\ KindNeedsCommand => cmdOk[p]

\* C5: when the role grant succeeded and the remote command failed, the worker
\* ends the Purchase 'failed' with discord_role_assigned stored true; the flag is
\* never cleared again, and it is true only if a role grant for that Purchase
\* returned success.
C5_PartialFailureKeepsRole ==
  /\ [](\A p \in PIds : (Created(p) /\ purchases[p].discord_role_assigned) => roleOk[p])
  /\ [][/\ \A p \in PIds :
             (Created(p) /\ purchases[p].discord_role_assigned)
               => purchases'[p].discord_role_assigned
        /\ \A w \in Workers :
             (WorkerSteps(w, "settle") /\ wloc[w].roleRet = "ok"
                /\ wloc[w].cmdRet = "failed")
               => /\ purchases'[Head(wqueue[w])].status = "failed"
                  /\ purchases'[Head(wqueue[w])].discord_role_assigned]_vars

C5_Witness ==
  \E p \in PIds :
    /\ Created(p)
    /\ purchases[p].status = "failed"
    /\ purchases[p].discord_role_assigned
    /\ item.item_type = "both"
    /\ cmdCalls[p] >= 1 /\ ~cmdOk[p]

C7_NoShortCircuit ==
  \A w \in Workers :
    (wpc[w] = "settle" /\ wloc[w].item.item_type = "both"
       /\ NeedsRole(wloc[w].item) /\ NeedsCommand(wloc[w].item))
      => /\ wloc[w].roleCalls = 1 /\ wloc[w].roleRet # "none"
         /\ wloc[w].cmdCalls = 1 /\ wloc[w].cmdRet # "none"

C7_Witness ==
  \E w \in Workers :
    /\ wpc[w] = "settle"
    /\ wloc[w].item.item_type = "both"
    /\ wloc[w].roleRet = "failed"
    /\ wloc[w].cmdCalls = 1 /\ wloc[w].cmdRet = "ok"

C9_ExceptionFailsAndSweepGoesOn ==
  [][\A w \in Workers :
       WorkerSteps(w, "except")
         => /\ purchases'[Head(wqueue[w])].status = "failed"
            /\ wqueue'[w] = Tail(wqueue[w])]_vars

RECURSIVE LedgerFrom(_, _, _)
LedgerFrom(ts, u, i) ==
  IF i > Len(ts) THEN 0
  ELSE (IF ts[i].user_id = u THEN ts[i].amount ELSE 0) + LedgerFrom(ts, u, i + 1)

LedgerSum(u) == LedgerFrom(transactions, u, 1)

\* session s serves a request of kind op and this step ends it
Ends(s, op) == sess[s].op = op /\ sess'[s] = NoSess

\* what the request r takes from the balance of r.u
Debit(r) ==
  IF r.op \in {"buy", "gift"} THEN r.amount
  ELSE IF r.op = "adjust" /\ r.amount < 0 THEN 0 - r.amount
  ELSE 0

\* the rows and balances of the store are as they were
StoreKept ==
  /\ coins' = coins /\ transactions' = transactions
  /\ purchases' = purchases /\ gifts' = gifts

\* C11: every user's balance is >= 0 in every reachable state, whatever the
\* interleaving of buys, gifts, earnings, administrative adjustments (negative
\* ones included), gift cancellations, payment awards and refunds.
C11_BalanceNeverNegative == \A u \in Users : coins[u] >= 0

C11_Witness ==
  /\ resp = "coins_check"
  /\ \E u \in Users : coins[u] = 0
  /\ \E i \in 1..Len(transactions) : transactions[i].amount < 0

\* C12: in every committed state the stored balance of every user equals the
\* balance the user started with plus the sum of the user's Transaction
\* amounts, also when requests on the same user overlap.
C12_BalanceEqualsLedger == \A u \in Users : coins[u] = StartCoins + LedgerSum(u)

\* C13: a buy or gift whose amount exceeds the balance it checked is refused
\* and loads nothing; an administrative adjustment that would take the balance
\* it read below zero is refused at its commit; a refusal leaves balances,
\* Purchases, Gifts and Transactions as they were and no session with staged
\* changes.
C13_RefusedDebitChangesNothing ==
  /\ [](\A s \in Sessions :
          sess[s].op \in {"buy", "gift"} => sess[s].amount <= sess[s].seen)
  /\ [][/\ (Ends("web", "adjust") /\ sess["web"].seen + sess["web"].amount < 0)
             => StoreKept /\ resp' = "coins_check"
        /\ (resp' # resp /\ resp' \in {"insufficient", "coins_check"})
             => /\ StoreKept
                /\ \A s \in Sessions : sess'[s] = NoSess \/ sess'[s] = sess[s]]_vars

C13_Witness ==
  /\ resp = "insufficient"
  /\ \E u \in Users : coins[u] < 2
  /\ \A s \in Sessions : sess[s] = NoSess
  /\ coins[1] + coins[2] = 2 * StartCoins + LedgerSum(1) + LedgerSum(2)

\* C14: the commit of a buy of quantity q at price p, made with a checked
\* balance b >= p*q, stores in one step the balance b - p*q, one new Purchase
\* (pending, quantity q, total_cost p*q) and one new 'purchase' Transaction of
\* amount -(p*q); a Purchase row never appears by any other step.
C14_BuyCommitsAtomically ==
  [][/\ \A w \in Workers :
          Ends(w, "buy")
            => LET r == sess[w]
                   cost == item.price * r.q IN
                 /\ r.seen >= cost
                 /\ coins' = [coins EXCEPT ![r.u] = r.seen - cost]
                 /\ Len(purchases') = Len(purchases) + 1
                 /\ purchases'[Len(purchases')].status = "pending"
                 /\ purchases'[Len(purchases')].quantity = r.q
                 /\ purchases'[Len(purchases')].total_cost = cost
                 /\ purchases'[Len(purchases')].user_id = r.u
                 /\ Len(transactions') = Len(transactions) + 1
                 /\ transactions'[Len(transactions')] =
                      [user_id |-> r.u, transaction_type |-> "purchase",
                       amount |-> 0 - cost, reference_id |-> "purchase_None"]
     /\ Len(purchases') # Len(purchases) => \E w \in Workers : Ends(w, "buy")]_vars

C14_Witness ==
  /\ Len(purchases) = 1
  /\ purchases[1].quantity = 2 /\ purchases[1].total_cost = 2
  /\ coins[1] = StartCoins - 2
  /\ Len(transactions) = 1 /\ transactions[1].amount = 0 - 2

\* C16: the commit of a gift of amount a > 0 from S (checked balance >= a) to
\* another user R stores in one step S's read balance minus a, R's read balance
\* plus a, one 'completed' Gift and the two Transactions (-a gift_sent for S, +a
\* gift_received for R), so that the two balances add up to what the gift read;
\* no Gift row ever has its sender as recipient, and a gift to oneself changes
\* nothing.
C16_GiftCommitsAtomically ==
  /\ [](\A g \in 1..Len(gifts) :
          /\ gifts[g].sender_id # gifts[g].recipient_id
          /\ gifts[g].amount > 0 /\ gifts[g].status = "completed")
  /\ [][/\ \A s \in Sessions :
             (Ends(s, "gift") /\ sess[s].u # sess[s].to)
               => LET r == sess[s] IN
                    /\ r.amount > 0 /\ r.seen >= r.amount
                    /\ coins'[r.u] = r.seen - r.amount
                    /\ coins'[r.to] = r.seenTo + r.amount
                    /\ coins'[r.u] + coins'[r.to] = r.seen + r.seenTo
                    /\ gifts' = Append(gifts,
                         [sender_id |-> r.u, recipient_id |-> r.to, amount |-> r.amount,
                          status |-> "completed"])
                    /\ Len(transactions') = Len(transactions) + 2
                    /\ transactions'[Len(transactions) + 1] =
                         [user_id |-> r.u, transaction_type |-> "gift_sent",
                          amount |-> 0 - r.amount, reference_id |-> "gift_None"]
                    /\ transactions'[Len(transactions) + 2] =
                         [user_id |-> r.to, transaction_type |-> "gift_received",
                          amount |-> r.amount, reference_id |-> "gift_None"]
        /\ \A s \in Sessions :
             (Ends(s, "gift") /\ sess[s].u = sess[s].to) => StoreKept
        /\ gifts' # gifts => \E s \in Sessions : Ends(s, "gift")]_vars

C16_Witness ==
  /\ Len(gifts) = 1
  /\ resp = "gift_check"
  /\ coins[gifts[1].sender_id] = StartCoins - gifts[1].amount
  /\ coins[gifts[1].recipient_id] = StartCoins + gifts[1].amount

\* C17: a balance-decreasing request on a user commits only if its amount is
\* covered by the balance stored at that moment: two requests never both commit
\* on the basis of the same earlier read.
C17_DebitsLinearized ==
  [][\A s \in Sessions :
       (sess[s] # NoSess /\ sess'[s] = NoSess /\ ~StoreKept)
         => Debit(sess[s]) <= coins[sess[s].u]]_vars

\* ------------------------------------------------- claims on frame effects
\* some bot instance takes a step of its sweep
WorkerStep == wpc' # wpc \/ wqueue' # wqueue \/ wloc' # wloc

\* sum of the total_cost of the Purchases
RECURSIVE CostFrom(_, _)
CostFrom(ps, i) == IF i > Len(ps) THEN 0 ELSE ps[i].total_cost + CostFrom(ps, i + 1)

\* C15: the total_cost and the quantity of an existing Purchase never change,
\* whatever the update-item endpoint, the worker or the manual-fulfill endpoint
\* do.
C15_TotalCostImmutable ==
  [][\A p \in PIds :
       Created(p)
         => /\ p <= Len(purchases')
            /\ purchases'[p].total_cost = purchases[p].total_cost
            /\ purchases'[p].quantity = purchases[p].quantity]_vars

C15_Witness ==
  \E p \in PIds, r \in PIds :
    /\ Created(p) /\ Created(r)
    /\ purchases[p].status = "fulfilled" /\ cmdCalls[p] = 0 /\ manualCalls = 1
    /\ purchases[r].status \in Terminal /\ cmdCalls[r] >= 1
    /\ purchases[p].total_cost = 1 /\ purchases[r].total_cost = 1

\* C18: no step of the fulfillment worker changes a balance or the ledger: the
\* buyer keeps having paid for every Purchase, failed ones included, and each
\* Purchase has its one Transaction.
C18_WorkerNeverRefunds ==
  /\ [](/\ coins[1] = StartCoins - CostFrom(purchases, 1)
        /\ Len(transactions) = Len(purchases))
  /\ [][WorkerStep => coins' = coins /\ transactions' = transactions]_vars

C18_Witness ==
  \E p \in PIds :
    /\ Created(p)
    /\ purchases[p].status = "failed"
    /\ cmdCalls[p] >= 1 /\ manualCalls = 0
    /\ coins[1] = StartCoins - CostFrom(purchases, 1)

\* C20: the status, fulfilled_at, minecraft_command and discord_role_assigned
\* of an existing Purchase are changed by steps of the fulfillment worker only,
\* and no other operation starts a side effect for a Purchase.
C20_OnlyWorkerWritesPurchases ==
  [][/\ \A p \in PIds :
          (Created(p) /\ purchases'[p] # purchases[p]) => WorkerStep
     /\ manualCalls' = manualCalls]_vars

\* C19: a Purchase whose required side effect (the remote command of a
\* 'minecraft' item) succeeded ends 'fulfilled', also when the notification of
\* the buyer raised.
C19_NotifyFailureKeepsFulfilled ==
  \A p \in PIds :
    (Created(p) /\ item.item_type = "minecraft" /\ cmdOk[p]
       /\ purchases[p].status \in Terminal)
      => purchases[p].status = "fulfilled"

\* C21: execute_command never raises; it returns True only when the session
\* was opened, the command was sent and the response came back in time; it
\* returns False on a connection failure, a timeout and any other exception,
\* and without a password it returns False and opens no session.
C21_ExecuteCommandNeverRaises ==
  /\ rcon.ret # "raised"
  /\ rcon.pc = "returned" =>
       /\ rcon.ret \in {"True", "False"}
       /\ rcon.ret = "True" =>
            rcon.opened /\ rcon.sent /\ rcon.answered /\ rcon.fault = "none"
       /\ rcon.fault \in Faults => rcon.ret = "False"
       /\ rcon.password = "" => (rcon.ret = "False" /\ ~rcon.opened /\ ~rcon.sent)

C21_Witness ==
  /\ rcon.pc = "returned"
  /\ rcon.opened /\ rcon.sent
  /\ rcon.fault = "exception"
  /\ rcon.ret = "False"

\* C22: get_server_status never raises; a lookup failure, a connection failure
\* and a timeout give online = False with an error, online = True is returned
\* only when the status query answered in time; the polling loop assigns every
\* server, whatever the servers before it did.
C22_StatusNeverRaises ==
  /\ ~poll.last.raised
  /\ \A s \in Servers :
       poll.rows[s].checked =>
         /\ poll.rows[s].is_online <=> poll.rows[s].outcome = "answered"
         /\ poll.rows[s].outcome # "answered" => poll.rows[s].error_message # NoError
  /\ poll.pc \in {"commit", "done"} => \A s \in Servers : poll.rows[s].checked

C22_Witness ==
  /\ poll.pc = "done"
  /\ poll.rows[1].outcome = "timeout" /\ ~poll.rows[1].is_online
  /\ poll.rows[MaxServers].outcome = "answered" /\ poll.rows[MaxServers].is_online

\* C23: assign_discord_role returns True exactly when add_roles succeeded in a
\* guild that holds both the member and the role; it calls add_roles in at most
\* one guild; it returns False when no guild holds both; it never raises.
C23_RoleGrantedInOneGuild ==
  /\ grant.ret # "raised"
  /\ Cardinality(grant.tried) <= 1
  /\ grant.added \subseteq grant.tried
  /\ grant.pc = "returned" =>
       /\ grant.ret \in {"True", "False"}
       /\ grant.ret = "True" <=>
            \E g \in GuildIds :
              grant.guilds[g].member /\ grant.guilds[g].role /\ g \in grant.added
       /\ (\A g \in GuildIds : ~(grant.guilds[g].member /\ grant.guilds[g].role))
            => (grant.ret = "False" /\ grant.tried = {})

C23_Witness ==
  /\ grant.pc = "returned"
  /\ grant.ret = "False"
  /\ grant.tried = {1}
  /\ grant.guilds[MaxGuilds].member /\ grant.guilds[MaxGuilds].role

\* C24: delete_item never removes an item that a Purchase references (such an
\* item is kept and only deactivated), so every Purchase references an item
\* that is still there.
C24_NoPurchaseReferencesMissingItem ==
  \A p \in PIds : Created(p) => item.present

\* C25: rate_limit accepts a call exactly when fewer than max_requests of the
\* calls it accepted for the key lie inside the window of the call; a rejected
\* call is not recorded; a call for one key leaves the other keys as they are.
C25_AcceptsIffBelowLimit ==
  /\ [](limiter.last.key # "" =>
          (limiter.last.ret <=> limiter.last.before < limiter.last.max_requests))
  /\ [][/\ (limiter'.last # limiter.last /\ ~limiter'.last.ret)
             => limiter'.accepted = limiter.accepted
        /\ \A k \in Keys :
             limiter'.storage[k] # limiter.storage[k] => limiter'.last.key = k]_vars

\* C26: the 'earn' Transactions of a user of the current day never sum to
\* more than max_daily_coins, and every award is at least one coin and at most
\* coins_per_message.
C26_DailyCapRespected ==
  /\ \A u \in Users : EarnedToday(transactions, u) <= MaxDailyCoins
  /\ \A i \in 1..Len(transactions) :
       transactions[i].transaction_type = "earn"
         => transactions[i].amount \in 1..CoinsPerMessage

\* C27: a Purchase whose claim to 'processing' is committed is settled
\* ('fulfilled' or 'failed') later on, also when the bot process stopped before
\* the terminal commit and was started again.
C27_SettledAfterRestart ==
  \A p \in PIds :
    (Created(p) /\ purchases[p].status = "processing")
      ~> (Created(p) /\ purchases[p].status \in Terminal)

\* C28: in every state a Purchase carries a fulfilled_at timestamp exactly
\* when its status is 'fulfilled'.
C28_TimestampIffFulfilled ==
  \A p \in PIds :
    Created(p) => (purchases[p].fulfilled_at # NoTime <=> purchases[p].status = "fulfilled")

\* the Transactions that credit the coins of the payment
PaymentAwards ==
  {i \in 1..Len(transactions) :
     transactions[i].reference_id = "pi_1" /\ transactions[i].amount > 0}

\* C29: however often the succeeded event of a payment is delivered, and
\* whatever the status of the payment by then, at most one Transaction credits
\* the payment.
C29_PaymentCreditedOnce == Cardinality(PaymentAwards) <= 1

\* a sweep is at Purchase p: it has taken p from its list and has not yet
\* committed the terminal status
WorkerProcessing(p) ==
  \E w \in Workers : wpc[w] # "idle" /\ wqueue[w] # <<>> /\ Head(wqueue[w]) = p

\* C30: the manual-fulfill endpoint executes its command only for a Purchase
\* that is 'pending' and that no sweep is processing; a Purchase that is not
\* pending is refused without a call, and when the endpoint's command failed the
\* Purchases are left as they were.
C30_ManualFulfillGuarded ==
  [][/\ (req.pc = "idle" /\ req'.pc = "call")
          => /\ purchases[req'.p].status = "pending"
             /\ ~WorkerProcessing(req'.p)
     /\ manualCalls' # manualCalls => req'.pc = "call"
     /\ (req.pc = "call" /\ req'.pc = "idle")
          => (purchases' = purchases \/ cmdOk'[req.p])]_vars

====
